---- MODULE Spec2Model ----
(***************************************************************************)
(* A model of the generic CRUD repository over a MongoDB collection        *)
(* (crudrepository.go and its helpers).  One repository is constructed for *)
(* one entity type; handles are cloned by Unscoped(); every operation is   *)
(* one atomic request to the collection.                                   *)
(*                                                                         *)
(* Go strings that are field VALUES (the Name of a user) are encoded as    *)
(* naturals, 0 being the empty string, so that every value of a document   *)
(* is a number and IsZero is "= 0".  Storage names (document keys) stay    *)
(* strings.  A struct tag string is kept as the sequence of its            *)
(* comma-separated parts; the empty tag is << >>.                          *)
(***************************************************************************)
EXTENDS Integers, Sequences, FiniteSets, TLC

\* ENTITY:    the entity type the repository was constructed for
\* documents: the documents of the collection
\* now:       time.Now().Unix()
\* handles:   the repository handles that exist, handles[1] the constructed one
\* last:      the last call: its receiver, arguments and results
\* calls:     the calls of concurrent callers, each with its request to the
\*            collection and, once served, its result
VARIABLES ENTITY, documents, now, handles, last, calls

vars == <<ENTITY, documents, now, handles, last, calls>>

----------------------------------------------------------------------------
(* Bounds of the model.                                                    *)

\* time.Now().Unix() ranges over 1..MaxClock
MaxClock == 2
\* at most MaxDocs documents are kept in the collection
MaxDocs == 2
\* at most MaxHandles repository handles exist at a time
MaxHandles == 2

\* ObjectIDs generated by the driver are the numbers above OidBase; they are
\* not values of the repository's ID type (int64)
OidBase == 100

\* the identifiers the callers use (0 is the zero value of int64)
IDs == {0, 1, 2}
\* the names the callers use (0 is the empty string)
Names == {0, 1}
Clock == 1..MaxClock

IsObjectID(v) == v > OidBase

----------------------------------------------------------------------------
(* Entity types: the declared shape of each struct, field by field, with   *)
(* its bson and json tags.                                                 *)

Field(name, bsonTag, jsonTag) == [Name |-> name, bson |-> bsonTag, json |-> jsonTag]

\* a struct type (or a pointer to one) with its declared fields
Struct(fields) == [kind |-> "struct", fields |-> fields]

\* User, UserSoftDelete, User1, User2, User3 are the structs of the tests
\* (UserSoftDelete is also the Role / User of the examples).
User ==
    Struct(<< Field("ID", <<"_id">>, <<"id">>),
              Field("Name", <<"name">>, <<"name">>) >>)

UserSoftDelete ==
    Struct(<< Field("ID", <<"_id">>, <<"id">>),
              Field("Name", <<"name">>, <<"name">>),
              Field("DeletedAt", <<"deleted_at">>, <<"deleted_at">>) >>)

User1 ==
    Struct(<< Field("ID", <<"mongo_id">>, <<"id">>),
              Field("DeletedAt", <<"mongo_deleted_at">>, <<"deleted_at">>) >>)

User2 ==
    Struct(<< Field("ID", << >>, <<"json_id">>),
              Field("DeletedAt", << >>, <<"json_deleted_at">>) >>)

User3 == Struct(<< Field("ID", << >>, <<"json_id">>) >>)

\* Account is a further instance of the type parameter ENTITY: the identifier
\* is the store's key and the soft-delete attribute has a storage name of its
\* own.
Account ==
    Struct(<< Field("ID", <<"_id">>, <<"id">>),
              Field("Name", <<"name">>, <<"name">>),
              Field("DeletedAt", <<"removed_at">>, <<"removed_at">>) >>)

EntityTypes == {User, UserSoftDelete, User1, User2, User3, Account}

\* a type that is not a struct: type Labels map[string]string, with GetID and
\* SetID declared on it
Labels == [kind |-> "map", fields |-> << >>]

\* the tags an attribute can carry under one key: none, a name, options
\* without a name (`bson:",omitempty"`)
TagsOf(name) == {<< >>, <<name>>, <<"", "omitempty">>}

\* the ways a struct can declare its identifier: not at all, or as ID or Id
IDAttributes ==
    {<< >>} \cup {<<Field(n, b, j)>> :
                     n \in {"ID", "Id"}, b \in TagsOf("mongo_id"), j \in TagsOf("json_id")}

\* the ways a struct can declare DeletedAt: not at all, or with tags
DeletedAtAttributes ==
    {<< >>} \cup {<<Field("DeletedAt", b, j)>> :
                     b \in TagsOf("mongo_deleted_at"), j \in TagsOf("json_deleted_at")}

\* the types NewCrudRepository can be instantiated with
DeclaredTypes ==
    {Struct(a \o d) : a \in IDAttributes, d \in DeletedAtAttributes}
        \cup EntityTypes \cup {Labels}

\* the entity types a repository is constructed for in the state machine
\* (User2 differs from User3 by a DeletedAt attribute that the codec stores
\* under a key no operation of the repository reads)
RepositoryTypes == {User, UserSoftDelete, User1, User3, Account}

\* reflect.Type.Kind, a pointer followed to its element
Kind(T) == T.kind

\* the declared fields, in declaration order
Shape(T) == T.fields

FieldNames(T) == {Shape(T)[i].Name : i \in 1..Len(Shape(T))}

\* reflect.Type.FieldByName: the index of the field, 0 when not found
FieldByName(T, name) ==
    IF \E i \in 1..Len(Shape(T)) : Shape(T)[i].Name = name
    THEN CHOOSE i \in 1..Len(Shape(T)) : Shape(T)[i].Name = name
    ELSE 0

\* the values an attribute of an entity passed by a caller can take
FieldValues(name) ==
    CASE name = "ID" -> IDs
      [] name = "Name" -> Names
      [] name = "DeletedAt" -> 0..1

\* the entities of type T: one value per declared attribute
Entities(T) ==
    {e \in [FieldNames(T) -> IDs \cup Names] :
        \A f \in FieldNames(T) : e[f] \in FieldValues(f)}

----------------------------------------------------------------------------
(* Field Resolver and Non-Zero Projector.                                  *)

\* the result of a call that panics
Panic == "panic"

getIDField(T) ==
    LET i == IF FieldByName(T, "ID") # 0 THEN FieldByName(T, "ID")
             ELSE FieldByName(T, "Id")
        tag == IF Shape(T)[i].bson = << >> THEN Shape(T)[i].json
               ELSE Shape(T)[i].bson
    IN  IF Kind(T) # "struct" THEN Panic
        ELSE IF i = 0 THEN Panic
        ELSE IF tag # << >> THEN Head(tag) ELSE "_id"

getDeletedAtField(T) ==
    LET i == FieldByName(T, "DeletedAt")
        tag == IF Shape(T)[i].bson = << >> THEN Shape(T)[i].json
               ELSE Shape(T)[i].bson
    IN  IF Kind(T) # "struct" THEN Panic
        ELSE IF i = 0 THEN ""
        ELSE IF tag # << >> THEN Head(tag) ELSE "deleted_at"

\* the key getNonZeroFields gives attribute i of T
NonZeroKey(T, i) ==
    LET f == Shape(T)[i]
        fieldName == IF f.bson # << >> THEN f.bson
                     ELSE IF f.json # << >> THEN f.json
                     ELSE <<f.Name>>
    IN  Head(fieldName)

\* the loop of getNonZeroFields over attributes 1..n; a later attribute
\* overwrites an earlier one of the same key
RECURSIVE NonZeroUpTo(_, _, _)
NonZeroUpTo(T, e, n) ==
    IF n = 0 THEN << >>
    ELSE LET result == NonZeroUpTo(T, e, n - 1)
             f == Shape(T)[n]
         IN  IF e[f.Name] # 0
             THEN (NonZeroKey(T, n) :> e[f.Name]) @@ result
             ELSE result

\* getNonZeroFields without the test field.IsZero(): every attribute is kept
getNonZeroFields_everyField(T, e) ==
    [k \in {NonZeroKey(T, i) : i \in 1..Len(Shape(T))} |->
        e[Shape(T)[CHOOSE i \in 1..Len(Shape(T)) : NonZeroKey(T, i) = k].Name]]

getNonZeroFields(T, e) == NonZeroUpTo(T, e, Len(Shape(T)))

----------------------------------------------------------------------------
(* The driver's struct codec, used by InsertOne(ctx, entity) and by        *)
(* Decode / cursor.All: the key of an attribute is the name in its bson    *)
(* tag, else the lower-cased attribute name (the json tag is not read).    *)

ToLower(name) ==
    CASE name = "ID" -> "id"
      [] name = "Id" -> "id"
      [] name = "Name" -> "name"
      [] name = "DeletedAt" -> "deletedat"

BsonKey(T, i) ==
    LET f == Shape(T)[i]
    IN  IF f.bson # << >> /\ Head(f.bson) # "" THEN Head(f.bson)
        ELSE ToLower(f.Name)

OmitEmpty(T, i) ==
    LET f == Shape(T)[i]
    IN  \E j \in 2..Len(f.bson) : f.bson[j] = "omitempty"

RECURSIVE MarshalUpTo(_, _, _)
MarshalUpTo(T, e, n) ==
    IF n = 0 THEN << >>
    ELSE LET doc == MarshalUpTo(T, e, n - 1)
             f == Shape(T)[n]
         IN  IF OmitEmpty(T, n) /\ e[f.Name] = 0 THEN doc
             ELSE (BsonKey(T, n) :> e[f.Name]) @@ doc

\* the document InsertOne builds from an entity
Marshal(T, e) == MarshalUpTo(T, e, Len(Shape(T)))

\* the entity Decode builds from a document: an attribute whose key is absent
\* keeps its zero value; keys that belong to no attribute are ignored
Unmarshal(T, doc) ==
    [name \in FieldNames(T) |->
        LET k == BsonKey(T, FieldByName(T, name))
        IN  IF k \in DOMAIN doc THEN doc[k] ELSE 0]

\* ENTITY.GetID() of the test and example structs
GetID(e) == e["ID"]

\* ENTITY.SetID(id)
SetID(e, id) == [e EXCEPT !["ID"] = id]

----------------------------------------------------------------------------
(* Filters.  A bson.M / map[string]any is a function from keys to          *)
(* conditions, a bson.D a sequence of bson.E records.                      *)

Eq(v) == [op |-> "$eq", v |-> v]
In(vs) == [op |-> "$in", v |-> vs]
ExistsIs(b) == [op |-> "$exists", v |-> b]
Or(clauses) == [op |-> "$or", v |-> clauses]

E(k, cond) == [Key |-> k, Value |-> cond]

\* umap.Foreach(filter, func(k, v) { d = append(d, bson.E{k, v}) })
RECURSIVE Foreach(_)
Foreach(m) ==
    IF DOMAIN m = {} THEN << >>
    ELSE LET k == CHOOSE x \in DOMAIN m : TRUE
             rest == [x \in DOMAIN m \ {k} |-> m[x]]
         IN  <<E(k, m[k])>> \o Foreach(rest)

\* how the collection evaluates one element of a filter on a document
RECURSIVE MatchE(_, _)
MatchE(doc, e) ==
    CASE e.Value.op = "$eq" -> e.Key \in DOMAIN doc /\ doc[e.Key] = e.Value.v
      [] e.Value.op = "$in" -> e.Key \in DOMAIN doc /\ doc[e.Key] \in e.Value.v
      [] e.Value.op = "$exists" -> (e.Key \in DOMAIN doc) = e.Value.v
      [] e.Value.op = "$or" ->
           \E j \in 1..Len(e.Value.v) : MatchE(doc, e.Value.v[j])

\* a document matches a filter when it matches every element
Match(doc, d) == \A i \in 1..Len(d) : MatchE(doc, d[i])

----------------------------------------------------------------------------
(* The collection: what the requests of the driver do to a set of          *)
(* documents.  "_id" is the collection's unique, immutable key.            *)

\* primitive.NewObjectID(): an ObjectID no document of the collection has
NewObjectID(docs) ==
    OidBase + CHOOSE k \in 1..(Cardinality(docs) + 1) :
                  \A d \in docs : d["_id"] # OidBase + k

\* the driver adds an "_id" to a document that has none
EnsureID(docs, doc) ==
    IF "_id" \in DOMAIN doc THEN doc ELSE ("_id" :> NewObjectID(docs)) @@ doc

IsDuplicateKey(docs, doc) == \E d \in docs : d["_id"] = doc["_id"]

Find(docs, d) == {x \in docs : Match(x, d)}

\* {"$set": data} applied to one document
Set(x, data) ==
    [k \in DOMAIN x \cup DOMAIN data |-> IF k \in DOMAIN data THEN data[k] ELSE x[k]]

\* a $set that would change "_id" is rejected by the collection
ModifiesID(x, data) == "_id" \in DOMAIN data /\ data["_id"] # x["_id"]

SetAll(docs, S, data) == (docs \ S) \cup {Set(x, data) : x \in S}

\* UpdateMany: every matching document is updated; the request stops with a
\* write error at the first document whose "_id" it would change, the
\* matching documents updated before that one stay updated
UpdateMany(docs, d, data) ==
    LET M == Find(docs, d)
        bad == {x \in M : ModifiesID(x, data)}
    IN  IF bad = {}
        THEN {[docs |-> SetAll(docs, M, data), err |-> "nil"]}
        ELSE {[docs |-> SetAll(docs, S, data), err |-> "WriteError"] :
                 S \in SUBSET (M \ bad)}

\* UpdateOne: the first matching document (which one is the store's choice)
UpdateOne(docs, d, data) ==
    LET M == Find(docs, d)
    IN  IF M = {} THEN {[docs |-> docs, err |-> "nil"]}
        ELSE {IF ModifiesID(x, data)
              THEN [docs |-> docs, err |-> "WriteError"]
              ELSE [docs |-> SetAll(docs, {x}, data), err |-> "nil"] : x \in M}

DeleteMany(docs, d) == docs \ Find(docs, d)

\* DeleteOne: the first matching document (which one is the store's choice)
DeleteOne(docs, d) ==
    LET M == Find(docs, d)
    IN  IF M = {} THEN {docs} ELSE {docs \ {x} : x \in M}

CountDocuments(docs, d) == Cardinality(Find(docs, d))

----------------------------------------------------------------------------
(* The repository handle.                                                  *)

NewCrudRepository(T) ==
    LET softDeleteField == getDeletedAtField(T)
    IN  [collection |-> "user",
         unscoped |-> FALSE,
         idField |-> getIDField(T),
         softDeleteField |-> softDeleteField,
         softDeleteEnabled |-> softDeleteField # ""]

clone(c) ==
    [collection |-> c.collection,
     unscoped |-> c.unscoped,
     idField |-> c.idField,
     softDeleteField |-> c.softDeleteField,
     softDeleteEnabled |-> c.softDeleteEnabled]

buildFilter(c, filter) ==
    LET d == Foreach(filter)
    IN  IF c.softDeleteEnabled /\ ~c.unscoped
        THEN Append(d, E("$or", Or(<< E("deleted_at", Eq(0)),
                                      E("deleted_at", ExistsIs(FALSE)) >>)))
        ELSE d

IsUnscoped(c) == c.unscoped

IDField(c) == c.idField

SoftDeleteField(c) == c.softDeleteField

SoftDeleteEnabled(c) == c.softDeleteEnabled

\* Unscoped() setting the flag on the receiver instead of on a clone
UnscopedHandles_inPlace(hs, i) ==
    LET cc == [hs[i] EXCEPT !.unscoped = TRUE]
    IN  Append([hs EXCEPT ![i] = cc], cc)

\* the handles after handles[i].Unscoped(): the receiver is cloned and the
\* clone, with its scope flag set, is the new handle
UnscopedHandles(hs, i) ==
    LET cc == [clone(hs[i]) EXCEPT !.unscoped = TRUE]
    IN  Append(hs, cc)

----------------------------------------------------------------------------
(* Sorting and paging of Find / FindOne.                                   *)

\* OrdersToSort: a negative direction is descending, any other ascending
OrdersToSort(orders) ==
    [i \in 1..Len(orders) |->
        [Key |-> orders[i].Key, Value |-> IF orders[i].Value < 0 THEN -1 ELSE 1]]

\* a missing key sorts as null, before every number
SortValue(x, k) == IF k \in DOMAIN x THEN x[k] ELSE -1

\* x comes strictly before y under the sort document
RECURSIVE Before(_, _, _)
Before(x, y, sort) ==
    IF sort = << >> THEN FALSE
    ELSE LET a == SortValue(x, Head(sort).Key)
             b == SortValue(y, Head(sort).Key)
         IN  IF a = b THEN Before(x, y, Tail(sort))
             ELSE IF Head(sort).Value < 0 THEN a > b ELSE a < b

\* the orders in which a cursor can deliver the documents M: every order when
\* there is no sort, else the orders that respect it (ties are the store's)
Cursors(M, sort) ==
    {s \in [1..Cardinality(M) -> M] :
        /\ \A i, j \in 1..Cardinality(M) : i # j => s[i] # s[j]
        /\ \A i, j \in 1..Cardinality(M) : i < j => ~Before(s[j], s[i], sort)}

\* SetSkip(offset).SetLimit(limit): a limit of 0 is no limit
Page(s, limit, offset) ==
    LET rest == SubSeq(s, offset + 1, Len(s))
    IN  IF limit = 0 THEN rest
        ELSE SubSeq(rest, 1, IF limit < Len(rest) THEN limit ELSE Len(rest))

\* cursor.All(ctx, &entities)
All(T, s) == [i \in 1..Len(s) |-> Unmarshal(T, s[i])]

\* SetProjection(bson.D{{idField, 1}}): "_id" is always delivered
Projection(doc, idField) ==
    [k \in DOMAIN doc \cap {"_id", idField} |-> doc[k]]

\* the nil entity a failed find leaves in its result
Nil == << >>

----------------------------------------------------------------------------
(* The operations.  Each gives the set of outcomes the call can have on    *)
(* the documents docs: the documents afterwards, the error returned, the   *)
(* value returned, the documents the store delivered and the number of     *)
(* requests sent.  fail: the store fails the request for a reason of its   *)
(* own (connection lost, timeout).                                         *)

\* A Go error is the chain errors.Is walks, the outermost error first; the
\* empty chain is the nil error.
NoError == << >>

\* the error the driver returns for a request the store failed
StoreError == "store error"

\* the error of the driver for the result kind of a request
DriverError(kind) == IF kind = "nil" THEN NoError ELSE <<kind>>

\* errors.WithStack: nil stays nil
WithStack(e) == IF e = NoError THEN NoError ELSE <<"stack">> \o e

\* errors.Wrap(e, format, args...)
Wrap(e, msg) == IF e = NoError THEN NoError ELSE <<msg>> \o e

\* sentinel.WrapStack(e): the sentinel error around e
WrapStack(sentinel, e) == <<sentinel, "stack">> \o e

\* errors.NewWithStack(format, args...)
NewWithStack(msg) == <<msg, "stack">>

\* errors.Is(e, target)
Is(e, target) == \E i \in 1..Len(e) : e[i] = target

\* what a caller finds the returned error to be
ErrorKind(e) ==
    IF e = NoError THEN "nil"
    ELSE IF Is(e, "NotFound") THEN "NotFound"
    ELSE IF Is(e, "DuplicatedKey") THEN "DuplicatedKey"
    ELSE IF Is(e, "unexpected type") THEN "UnexpectedType"
    ELSE IF Is(e, "WriteError") THEN "WriteError"
    ELSE "IOFailure"

Out(docs, e, ret, seen, requests) ==
    [docs |-> docs, err |-> ErrorKind(e), chain |-> e, ret |-> ret, seen |-> seen,
     requests |-> requests]

\* the deferred errors.Recover of FindOne, FindByID and FindByPage wraps the
\* error of the call
Recovered(S, msg) ==
    {[o EXCEPT !.chain = Wrap(o.chain, msg), !.err = ErrorKind(Wrap(o.chain, msg))] :
        o \in S}

\* the outcome of a request the store failed: errors.Check(errors.WithStack(err))
\* without the error the driver returned
Failed_newError(docs, ret) == {Out(docs, NewWithStack("request failed"), ret, << >>, 1)}

\* the outcome of a request the store failed: errors.Check(errors.WithStack(err))
Failed(docs, ret) == {Out(docs, WithStack(<<StoreError>>), ret, << >>, 1)}

Create(c, T, docs, entity, fail) ==
    LET doc == EnsureID(docs, Marshal(T, entity))
        InsertedID == doc["_id"]
        ok == ~IsObjectID(InsertedID)
        err == IF fail THEN <<StoreError>>
               ELSE IF IsDuplicateKey(docs, doc)
               THEN WrapStack("DuplicatedKey", <<"E11000 duplicate key">>)
               ELSE NoError
        R(ds, e, id, after) ==
            [docs |-> ds, err |-> ErrorKind(e), chain |-> e, id |-> id, entity |-> after]
    IN  IF err # NoError THEN R(docs, WithStack(err), 0, entity)
        ELSE IF ~ok
        THEN R(docs \cup {doc}, NewWithStack("unexpected type"), 0, entity)
        ELSE R(docs \cup {doc}, NoError, InsertedID, SetID(entity, InsertedID))

\* collection.FindOne(ctx, d, opts).Decode(&entity)
FindOneDecode(T, docs, d, sort) ==
    IF Find(docs, d) = {}
    THEN {Out(docs, WithStack(WrapStack("NotFound", <<"ErrNoDocuments">>)), Nil, << >>, 1)}
    ELSE {Out(docs, NoError, Unmarshal(T, s[1]), <<s[1]>>, 1) :
             s \in Cursors(Find(docs, d), sort)}

FindOne(c, T, docs, filter, orders, fail) ==
    Recovered(IF fail THEN Failed(docs, Nil)
              ELSE FindOneDecode(T, docs, buildFilter(c, filter),
                                 IF Len(orders) > 0 THEN OrdersToSort(orders)
                                 ELSE << >>),
              "param: filter, orders")

FindByID(c, T, docs, id, fail) ==
    Recovered(IF fail THEN Failed(docs, Nil)
              ELSE FindOneDecode(T, docs, buildFilter(c, c.idField :> Eq(id)), << >>),
              "param: id")

\* collection.Find(ctx, d, opts) followed by cursor.All
FindAllDecode(T, docs, d, sort, limit, offset) ==
    {Out(docs, NoError, All(T, Page(s, limit, offset)), Page(s, limit, offset), 1) :
        s \in Cursors(Find(docs, d), sort)}

IdSet(ids) == {ids[i] : i \in 1..Len(ids)}

\* FindByIDs without the test len(ids) == 0
FindByIDs_alwaysQueries(c, T, docs, ids, fail) ==
    IF fail THEN Failed(docs, << >>)
    ELSE FindAllDecode(T, docs, buildFilter(c, c.idField :> In(IdSet(ids))),
                       << >>, 0, 0)

FindByIDs(c, T, docs, ids, fail) ==
    IF Len(ids) = 0 THEN {Out(docs, NoError, << >>, << >>, 0)}
    ELSE IF fail THEN Failed(docs, << >>)
    ELSE FindAllDecode(T, docs, buildFilter(c, c.idField :> In(IdSet(ids))),
                       << >>, 0, 0)

FindByPage(c, T, docs, limit, offset, orders, fail) ==
    Recovered(IF fail THEN Failed(docs, << >>)
              ELSE FindAllDecode(T, docs, buildFilter(c, << >>),
                                 IF Len(orders) > 0 THEN OrdersToSort(orders)
                                 ELSE << >>,
                                 limit, offset),
              "param: limit, offset, orders")

FindByFilter(c, T, docs, filter, fail) ==
    IF fail THEN Failed(docs, << >>)
    ELSE FindAllDecode(T, docs, buildFilter(c, filter), << >>, 0, 0)

FindByFilterWithPage(c, T, docs, filter, limit, offset, orders, fail) ==
    IF fail THEN Failed(docs, << >>)
    ELSE FindAllDecode(T, docs, buildFilter(c, filter),
                       IF Len(orders) > 0 THEN OrdersToSort(orders) ELSE << >>,
                       limit, offset)

FindAll(c, T, docs, fail) ==
    IF fail THEN Failed(docs, << >>)
    ELSE FindAllDecode(T, docs, buildFilter(c, << >>), << >>, 0, 0)

\* Count sending an empty filter instead of the scoped one
Count_everyDocument(c, docs, fail) ==
    IF fail THEN Failed(docs, 0)
    ELSE {Out(docs, NoError, CountDocuments(docs, << >>), << >>, 1)}

Count(c, docs, fail) ==
    IF fail THEN Failed(docs, 0)
    ELSE {Out(docs, NoError, CountDocuments(docs, buildFilter(c, << >>)), << >>, 1)}

CountByFilter(c, docs, filter, fail) ==
    IF fail THEN Failed(docs, 0)
    ELSE {Out(docs, NoError, CountDocuments(docs, buildFilter(c, filter)), << >>, 1)}

\* the probe without the test errors.Is(err, mongo.ErrNoDocuments)
FindOneErr_notTranslated(docs, d, idField) ==
    IF Find(docs, d) = {} THEN {Out(docs, WithStack(<<"ErrNoDocuments">>), FALSE, << >>, 1)}
    ELSE {Out(docs, NoError, TRUE, <<Projection(x, idField)>>, 1) : x \in Find(docs, d)}

\* collection.FindOne(ctx, d, projection).Err(), ErrNoDocuments read as false
FindOneErr(docs, d, idField) ==
    IF Find(docs, d) = {} THEN {Out(docs, NoError, FALSE, << >>, 1)}
    ELSE {Out(docs, NoError, TRUE, <<Projection(x, idField)>>, 1) : x \in Find(docs, d)}

Exists(c, docs, filter, fail) ==
    IF fail THEN Failed(docs, FALSE)
    ELSE FindOneErr(docs, buildFilter(c, filter), c.idField)

ExistsByID(c, docs, id, fail) ==
    IF fail THEN Failed(docs, FALSE)
    ELSE FindOneErr(docs, buildFilter(c, c.idField :> Eq(id)), c.idField)

\* the Dict of ExistsByIDs: the identifier of every decoded entity set to true
ExistsByIDs(c, T, docs, ids, fail) ==
    IF Len(ids) = 0 THEN {Out(docs, NoError, << >>, << >>, 0)}
    ELSE IF fail THEN Failed(docs, << >>)
    ELSE {Out(docs, NoError,
              [k \in {GetID(Unmarshal(T, Projection(s[i], c.idField))) :
                         i \in 1..Len(s)} |-> TRUE],
              [i \in 1..Len(s) |-> Projection(s[i], c.idField)], 1) :
             s \in Cursors(Find(docs, buildFilter(c, c.idField :> In(IdSet(ids)))),
                           << >>)}

\* the outcomes of an update or delete request, as outcomes of the call
Written(S) == {Out(o.docs, WithStack(DriverError(o.err)), << >>, << >>, 1) : o \in S}

Update(c, docs, filter, data, fail) ==
    IF fail THEN Failed(docs, << >>)
    ELSE Written(UpdateMany(docs, buildFilter(c, filter), data))

UpdateByID(c, docs, id, data, fail) ==
    IF fail THEN Failed(docs, << >>)
    ELSE Written(UpdateOne(docs, buildFilter(c, c.idField :> Eq(id)), data))

UpdateNonZero(c, T, docs, filter, entity, fail) ==
    LET data == getNonZeroFields(T, entity)
    IN  IF DOMAIN data = {} THEN {Out(docs, NoError, << >>, << >>, 0)}
        ELSE IF fail THEN Failed(docs, << >>)
        ELSE Written(UpdateMany(docs, buildFilter(c, filter), data))

UpdateNonZeroByID(c, T, docs, id, entity, fail) ==
    LET data == getNonZeroFields(T, entity)
    IN  IF DOMAIN data = {} THEN {Out(docs, NoError, << >>, << >>, 0)}
        ELSE IF fail THEN Failed(docs, << >>)
        ELSE Written(UpdateOne(docs, buildFilter(c, c.idField :> Eq(id)), data))

\* softDelete stamping the conventional name instead of the resolved one
softDelete_conventionalName(c, docs, filter, t, fail) ==
    Update(c, docs, filter, "deleted_at" :> t, fail)

\* t: time.Now().Unix()
softDelete(c, docs, filter, t, fail) ==
    Update(c, docs, filter, c.softDeleteField :> t, fail)

Removed(S) == {Out(x, NoError, << >>, << >>, 1) : x \in S}

\* Delete passing the filter through the scoped-filter builder before the
\* physical delete
Delete_scopedFilter(c, docs, filter, t, fail) ==
    IF c.softDeleteEnabled /\ ~c.unscoped THEN softDelete(c, docs, filter, t, fail)
    ELSE IF fail THEN Failed(docs, << >>)
    ELSE Removed({DeleteMany(docs, buildFilter([c EXCEPT !.unscoped = FALSE], filter))})

Delete(c, docs, filter, t, fail) ==
    IF c.softDeleteEnabled /\ ~c.unscoped THEN softDelete(c, docs, filter, t, fail)
    ELSE IF fail THEN Failed(docs, << >>)
    ELSE Removed({DeleteMany(docs, Foreach(filter))})

DeleteByID(c, docs, id, t, fail) ==
    LET filter == c.idField :> Eq(id)
    IN  IF c.softDeleteEnabled /\ ~c.unscoped THEN softDelete(c, docs, filter, t, fail)
        ELSE IF fail THEN Failed(docs, << >>)
        ELSE Removed(DeleteOne(docs, Foreach(filter)))

DeleteByIDs(c, docs, ids, t, fail) ==
    LET filter == c.idField :> In(IdSet(ids))
    IN  IF Len(ids) = 0 THEN {Out(docs, NoError, << >>, << >>, 0)}
        ELSE IF c.softDeleteEnabled /\ ~c.unscoped
        THEN softDelete(c, docs, filter, t, fail)
        ELSE IF fail THEN Failed(docs, << >>)
        ELSE Removed({DeleteMany(docs, Foreach(filter))})

DeleteAll(c, docs, t, fail) ==
    LET filter == << >>
    IN  IF c.softDeleteEnabled /\ ~c.unscoped THEN softDelete(c, docs, filter, t, fail)
        ELSE IF fail THEN Failed(docs, << >>)
        ELSE Removed({DeleteMany(docs, Foreach(filter))})

DeleteAllByFilter(c, docs, filter, t, fail) ==
    IF c.softDeleteEnabled /\ ~c.unscoped THEN softDelete(c, docs, filter, t, fail)
    ELSE IF fail THEN Failed(docs, << >>)
    ELSE Removed({DeleteMany(docs, Foreach(filter))})

----------------------------------------------------------------------------
(* The arguments the callers pass.                                         *)

\* filters: none, by name, by the identifier field
Filters(c) == {<< >>, "name" :> Eq(1), c.idField :> Eq(1)}

\* the identifiers passed to the by-identifier calls and to Create
CallIDs == IDs \ {0}

\* the entities passed to Create: the identifier comes from a generator
NewEntities(T) == {e \in Entities(T) : e["ID"] # 0}

\* identifier lists: empty, one, two, one repeated
IDLists == {<< >>, <<1>>, <<1, 2>>, <<2, 2>>}

\* orders: none, by name descending, by the identifier field ascending
Orders(c) ==
    {<< >>, <<[Key |-> "name", Value |-> -1]>>, <<[Key |-> c.idField, Value |-> 0]>>}

\* partial documents for Update: a name, or the soft-delete field cleared
Datas(c, T) ==
    (IF FieldByName(T, "Name") # 0 THEN {"name" :> 1} ELSE {})
        \cup (IF c.softDeleteEnabled THEN {c.softDeleteField :> 0}
              ELSE {c.idField :> 1})

\* pages, as <<limit, offset>>: everything, the first one, the second one
Pages == {<<0, 0>>, <<1, 0>>, <<1, 1>>}

\* filters of the paged find: none, by name
PageFilters == {<< >>, "name" :> Eq(1)}

----------------------------------------------------------------------------
(* The state machine.                                                      *)

\* a document written before the entity had its DeletedAt attribute
Legacy(T) ==
    LET doc == EnsureID({}, Marshal(T, [f \in FieldNames(T) |-> IF f = "DeletedAt" THEN 0 ELSE 1]))
    IN  [k \in DOMAIN doc \ {BsonKey(T, FieldByName(T, "DeletedAt"))} |-> doc[k]]

NoCall ==
    [op |-> "none", h |-> 0, filter |-> << >>, orders |-> << >>, limit |-> 0,
     offset |-> 0, id |-> 0, ids |-> << >>, entity |-> << >>, data |-> << >>,
     t |-> 0, fail |-> FALSE,
     err |-> "nil", chain |-> << >>, ret |-> << >>, after |-> << >>, seen |-> << >>,
     requests |-> 0]

Init ==
    /\ ENTITY \in RepositoryTypes
    /\ documents \in {{}} \cup (IF FieldByName(ENTITY, "DeletedAt") # 0
                                THEN {{Legacy(ENTITY)}} ELSE {})
    /\ now = 1
    /\ handles = <<NewCrudRepository(ENTITY)>>
    /\ last = NoCall
    /\ calls = << >>

H == 1..Len(handles)

\* the caller is between two calls
Idle == last = NoCall

\* the caller has taken the result of its last call
Return ==
    /\ ~Idle
    /\ last' = NoCall
    /\ UNCHANGED <<ENTITY, documents, now, handles, calls>>

\* the result of a call recorded in last
Done(call, o) ==
    /\ documents' = o.docs
    /\ last' = [call EXCEPT !.err = o.err, !.chain = o.chain, !.ret = o.ret,
                            !.seen = o.seen, !.requests = o.requests]
    /\ UNCHANGED <<ENTITY, now, handles, calls>>

\* the clock of time.Now() advances
Tick ==
    /\ Idle
    /\ now < MaxClock
    /\ now' = now + 1
    /\ UNCHANGED <<ENTITY, documents, handles, last, calls>>

DoUnscoped ==
    /\ Idle
    /\ \E h \in H :
           /\ Len(handles) < MaxHandles
           /\ handles' = UnscopedHandles(handles, h)
           /\ last' = [NoCall EXCEPT !.op = "Unscoped", !.h = h]
           /\ UNCHANGED <<ENTITY, documents, now, calls>>

DoCreate ==
    /\ Idle
    /\ \E h \in H, entity \in NewEntities(ENTITY), fail \in BOOLEAN :
           LET o == Create(handles[h], ENTITY, documents, entity, fail)
           IN  /\ Cardinality(o.docs) <= MaxDocs
               /\ documents' = o.docs
               /\ last' = [NoCall EXCEPT !.op = "Create", !.h = h, !.entity = entity,
                               !.fail = fail, !.err = o.err, !.chain = o.chain,
                               !.ret = o.id,
                               !.after = o.entity, !.requests = 1]
               /\ UNCHANGED <<ENTITY, now, handles, calls>>

DoFindOne ==
    /\ Idle
    /\ \E h \in H, fail \in BOOLEAN :
         \E filter \in Filters(handles[h]), orders \in Orders(handles[h]) :
           \E o \in FindOne(handles[h], ENTITY, documents, filter, orders, fail) :
               Done([NoCall EXCEPT !.op = "FindOne", !.h = h, !.filter = filter,
                                   !.orders = orders, !.fail = fail], o)

DoFindByID ==
    /\ Idle
    /\ \E h \in H, id \in CallIDs, fail \in BOOLEAN :
           \E o \in FindByID(handles[h], ENTITY, documents, id, fail) :
               Done([NoCall EXCEPT !.op = "FindByID", !.h = h, !.id = id, !.fail = fail], o)

DoFindByIDs ==
    /\ Idle
    /\ \E h \in H, ids \in IDLists, fail \in BOOLEAN :
           \E o \in FindByIDs(handles[h], ENTITY, documents, ids, fail) :
               Done([NoCall EXCEPT !.op = "FindByIDs", !.h = h, !.ids = ids, !.fail = fail], o)

DoFindByPage ==
    /\ Idle
    /\ \E h \in H, page \in Pages, fail \in BOOLEAN :
         \E orders \in Orders(handles[h]) :
           \E o \in FindByPage(handles[h], ENTITY, documents, page[1], page[2], orders,
                               fail) :
               Done([NoCall EXCEPT !.op = "FindByPage", !.h = h, !.limit = page[1],
                                   !.offset = page[2], !.orders = orders,
                                   !.fail = fail], o)

DoFindByFilter ==
    /\ Idle
    /\ \E h \in H, fail \in BOOLEAN :
         \E filter \in Filters(handles[h]) :
           \E o \in FindByFilter(handles[h], ENTITY, documents, filter, fail) :
               Done([NoCall EXCEPT !.op = "FindByFilter", !.h = h, !.filter = filter,
                                   !.fail = fail], o)

DoFindByFilterWithPage ==
    /\ Idle
    /\ \E h \in H, page \in Pages, fail \in BOOLEAN :
         \E filter \in PageFilters, orders \in Orders(handles[h]) :
           \E o \in FindByFilterWithPage(handles[h], ENTITY, documents, filter, page[1],
                                         page[2], orders, fail) :
               Done([NoCall EXCEPT !.op = "FindByFilterWithPage", !.h = h,
                                   !.filter = filter, !.limit = page[1],
                                   !.offset = page[2], !.orders = orders,
                                   !.fail = fail], o)

DoFindAll ==
    /\ Idle
    /\ \E h \in H, fail \in BOOLEAN :
           \E o \in FindAll(handles[h], ENTITY, documents, fail) :
               Done([NoCall EXCEPT !.op = "FindAll", !.h = h, !.fail = fail], o)

DoCount ==
    /\ Idle
    /\ \E h \in H, fail \in BOOLEAN :
           \E o \in Count(handles[h], documents, fail) :
               Done([NoCall EXCEPT !.op = "Count", !.h = h, !.fail = fail], o)

DoCountByFilter ==
    /\ Idle
    /\ \E h \in H, fail \in BOOLEAN :
         \E filter \in Filters(handles[h]) :
           \E o \in CountByFilter(handles[h], documents, filter, fail) :
               Done([NoCall EXCEPT !.op = "CountByFilter", !.h = h, !.filter = filter,
                                   !.fail = fail], o)

DoExists ==
    /\ Idle
    /\ \E h \in H, fail \in BOOLEAN :
         \E filter \in Filters(handles[h]) :
           \E o \in Exists(handles[h], documents, filter, fail) :
               Done([NoCall EXCEPT !.op = "Exists", !.h = h, !.filter = filter,
                                   !.fail = fail], o)

DoExistsByID ==
    /\ Idle
    /\ \E h \in H, id \in CallIDs, fail \in BOOLEAN :
           \E o \in ExistsByID(handles[h], documents, id, fail) :
               Done([NoCall EXCEPT !.op = "ExistsByID", !.h = h, !.id = id, !.fail = fail], o)

DoExistsByIDs ==
    /\ Idle
    /\ \E h \in H, ids \in IDLists, fail \in BOOLEAN :
           \E o \in ExistsByIDs(handles[h], ENTITY, documents, ids, fail) :
               Done([NoCall EXCEPT !.op = "ExistsByIDs", !.h = h, !.ids = ids,
                                   !.fail = fail], o)

DoUpdate ==
    /\ Idle
    /\ \E h \in H, fail \in BOOLEAN :
         \E filter \in Filters(handles[h]), data \in Datas(handles[h], ENTITY) :
           \E o \in Update(handles[h], documents, filter, data, fail) :
               Done([NoCall EXCEPT !.op = "Update", !.h = h, !.filter = filter,
                                   !.data = data, !.fail = fail], o)

DoUpdateByID ==
    /\ Idle
    /\ \E h \in H, id \in CallIDs, fail \in BOOLEAN :
         \E data \in Datas(handles[h], ENTITY) :
           \E o \in UpdateByID(handles[h], documents, id, data, fail) :
               Done([NoCall EXCEPT !.op = "UpdateByID", !.h = h, !.id = id,
                                   !.data = data, !.fail = fail], o)

DoUpdateNonZero ==
    /\ Idle
    /\ \E h \in H, entity \in Entities(ENTITY), fail \in BOOLEAN :
         \E filter \in Filters(handles[h]) :
           \E o \in UpdateNonZero(handles[h], ENTITY, documents, filter, entity, fail) :
               Done([NoCall EXCEPT !.op = "UpdateNonZero", !.h = h, !.filter = filter,
                                   !.entity = entity, !.fail = fail], o)

DoUpdateNonZeroByID ==
    /\ Idle
    /\ \E h \in H, id \in CallIDs, entity \in Entities(ENTITY), fail \in BOOLEAN :
           \E o \in UpdateNonZeroByID(handles[h], ENTITY, documents, id, entity, fail) :
               Done([NoCall EXCEPT !.op = "UpdateNonZeroByID", !.h = h, !.id = id,
                                   !.entity = entity, !.fail = fail], o)

DoDelete ==
    /\ Idle
    /\ \E h \in H, fail \in BOOLEAN :
         \E filter \in Filters(handles[h]) :
           \E o \in Delete(handles[h], documents, filter, now, fail) :
               Done([NoCall EXCEPT !.op = "Delete", !.h = h, !.filter = filter,
                                   !.t = now, !.fail = fail], o)

DoDeleteByID ==
    /\ Idle
    /\ \E h \in H, id \in CallIDs, fail \in BOOLEAN :
           \E o \in DeleteByID(handles[h], documents, id, now, fail) :
               Done([NoCall EXCEPT !.op = "DeleteByID", !.h = h, !.id = id,
                                   !.t = now, !.fail = fail], o)

DoDeleteByIDs ==
    /\ Idle
    /\ \E h \in H, ids \in IDLists, fail \in BOOLEAN :
           \E o \in DeleteByIDs(handles[h], documents, ids, now, fail) :
               Done([NoCall EXCEPT !.op = "DeleteByIDs", !.h = h, !.ids = ids,
                                   !.t = now, !.fail = fail], o)

DoDeleteAll ==
    /\ Idle
    /\ \E h \in H, fail \in BOOLEAN :
           \E o \in DeleteAll(handles[h], documents, now, fail) :
               Done([NoCall EXCEPT !.op = "DeleteAll", !.h = h, !.t = now,
                                   !.fail = fail], o)

DoDeleteAllByFilter ==
    /\ Idle
    /\ \E h \in H, fail \in BOOLEAN :
         \E filter \in Filters(handles[h]) :
           \E o \in DeleteAllByFilter(handles[h], documents, filter, now, fail) :
               Done([NoCall EXCEPT !.op = "DeleteAllByFilter", !.h = h,
                                   !.filter = filter, !.t = now, !.fail = fail], o)

Next ==
    \/ Return
    \/ Tick
    \/ DoUnscoped
    \/ DoCreate
    \/ DoFindOne
    \/ DoFindByID
    \/ DoFindByIDs
    \/ DoFindByPage
    \/ DoFindByFilter
    \/ DoFindByFilterWithPage
    \/ DoFindAll
    \/ DoCount
    \/ DoCountByFilter
    \/ DoExists
    \/ DoExistsByID
    \/ DoExistsByIDs
    \/ DoUpdate
    \/ DoUpdateByID
    \/ DoUpdateNonZero
    \/ DoUpdateNonZeroByID
    \/ DoDelete
    \/ DoDeleteByID
    \/ DoDeleteByIDs
    \/ DoDeleteAll
    \/ DoDeleteAllByFilter

Spec == Init /\ [][Next]_vars

----------------------------------------------------------------------------
(* Construction alone, for every declared type.                            *)

\* NewCrudRepository panics: one of the two resolvers does
Panics(T) == getDeletedAtField(T) = Panic \/ getIDField(T) = Panic

InitConstruct ==
    /\ ENTITY \in DeclaredTypes
    /\ documents = {}
    /\ now = 1
    /\ handles = << >>
    /\ last = NoCall
    /\ calls = << >>

\* NewCrudRepository[ID, ENTITY](collection): a handle, or a panic and none
DoNewCrudRepository ==
    /\ Idle
    /\ handles = << >>
    /\ handles' = IF Panics(ENTITY) THEN << >> ELSE <<NewCrudRepository(ENTITY)>>
    /\ last' = [NoCall EXCEPT !.op = "NewCrudRepository",
                              !.err = IF Panics(ENTITY) THEN Panic ELSE "nil"]
    /\ UNCHANGED <<ENTITY, documents, now, calls>>

NextConstruct == DoNewCrudRepository

SpecConstruct == InitConstruct /\ [][NextConstruct]_vars

----------------------------------------------------------------------------
(* Concurrent callers of one scoped handle: a DeleteByID and an update by  *)
(* identifier.  A call builds its request (DeleteByID reads time.Now()     *)
(* then) and the collection serves the requests one at a time, in any      *)
(* order.                                                                  *)

\* the documents of the race: one live document with the identifier 1, stored
\* by Create or written before the entity had its DeletedAt attribute
RaceDocuments(T) ==
    {Create(NewCrudRepository(T), T, {}, e, FALSE).docs :
        e \in {x \in NewEntities(T) : GetID(x) = 1 /\ x["DeletedAt"] = 0}}
        \cup {{Legacy(T)}}

InitRace ==
    /\ ENTITY \in {T \in RepositoryTypes : FieldByName(T, "DeletedAt") # 0}
    /\ documents \in RaceDocuments(ENTITY)
    /\ now = 1
    /\ handles = <<NewCrudRepository(ENTITY)>>
    /\ last = NoCall
    /\ calls = << >>

\* the caller p starts the call on the scoped handle: its request is built
\* and not yet served
Go(p, call) ==
    /\ calls' = (p :> [call |-> [call EXCEPT !.h = 1], returned |-> FALSE]) @@ calls
    /\ UNCHANGED <<ENTITY, documents, now, handles, last>>

GoDeleteByID ==
    /\ "deleter" \notin DOMAIN calls
    /\ \E id \in CallIDs :
           Go("deleter", [NoCall EXCEPT !.op = "DeleteByID", !.id = id, !.t = now])

GoUpdateByID ==
    /\ "updater" \notin DOMAIN calls
    /\ \E id \in CallIDs, data \in Datas(handles[1], ENTITY) :
           Go("updater", [NoCall EXCEPT !.op = "UpdateByID", !.id = id, !.data = data])

GoUpdateNonZeroByID ==
    /\ "updater" \notin DOMAIN calls
    /\ \E id \in CallIDs, entity \in Entities(ENTITY) :
           Go("updater", [NoCall EXCEPT !.op = "UpdateNonZeroByID", !.id = id,
                                        !.entity = entity])

\* the outcomes of the call when its request is served on docs
Served(call, docs, fail) ==
    CASE call.op = "DeleteByID" ->
           DeleteByID(handles[call.h], docs, call.id, call.t, fail)
      [] call.op = "UpdateByID" ->
           UpdateByID(handles[call.h], docs, call.id, call.data, fail)
      [] call.op = "UpdateNonZeroByID" ->
           UpdateNonZeroByID(handles[call.h], ENTITY, docs, call.id, call.entity, fail)

\* the collection serves the request of one of the calls, which returns
Serve ==
    \E p \in DOMAIN calls, fail \in BOOLEAN :
        /\ ~calls[p].returned
        /\ \E o \in Served(calls[p].call, documents, fail) :
               /\ documents' = o.docs
               /\ calls' = [calls EXCEPT
                              ![p] = [call |-> [@.call EXCEPT !.fail = fail, !.err = o.err,
                                                              !.chain = o.chain,
                                                              !.requests = o.requests],
                                      returned |-> TRUE]]
        /\ UNCHANGED <<ENTITY, now, handles, last>>

NextRace ==
    \/ Tick
    \/ GoDeleteByID
    \/ GoUpdateByID
    \/ GoUpdateNonZeroByID
    \/ Serve

SpecRace == InitRace /\ [][NextRace]_vars

----------------------------------------------------------------------------
(* Vocabulary of the properties.                                           *)

\* the handle the last call was made on
Caller == handles[last.h]

\* the handle hides soft-deleted documents
Scoped(c) == SoftDeleteEnabled(c) /\ ~IsUnscoped(c)

\* the document is not soft-deleted: its soft-delete field, under the name
\* the repository resolved for it, is 0 or absent
Live(c, d) ==
    SoftDeleteField(c) \notin DOMAIN d \/ d[SoftDeleteField(c)] = 0

\* the document is visible under the scope of the handle
Visible(c, d) == Scoped(c) => Live(c, d)

\* the caller's predicates of a call select the document
Selects(call, c, d) ==
    CASE call.op \in {"FindOne", "FindByFilter", "FindByFilterWithPage", "CountByFilter",
                      "Exists", "Update", "UpdateNonZero", "Delete",
                      "DeleteAllByFilter"} ->
           \A k \in DOMAIN call.filter : k \in DOMAIN d /\ d[k] = call.filter[k].v
      [] call.op \in {"FindByID", "ExistsByID", "UpdateByID", "UpdateNonZeroByID",
                      "DeleteByID"} ->
           IDField(c) \in DOMAIN d /\ d[IDField(c)] = call.id
      [] call.op \in {"FindByIDs", "ExistsByIDs", "DeleteByIDs"} ->
           /\ IDField(c) \in DOMAIN d
           /\ \E i \in 1..Len(call.ids) : d[IDField(c)] = call.ids[i]
      [] OTHER -> TRUE

Keys(docs) == {d["_id"] : d \in docs}

SeqKeys(s) == {s[i]["_id"] : i \in 1..Len(s)}

\* the document of docs with the key of d, when there is one
Same(docs, d) == CHOOSE x \in docs : x["_id"] = d["_id"]

\* the document is the one Create stores for the entity e, the identifier of
\* the insert being of the repository's ID type
CreatedFrom(T, d, e) == d = Marshal(T, e) /\ "_id" \in DOMAIN d

DeleteOps == {"Delete", "DeleteByID", "DeleteByIDs", "DeleteAll", "DeleteAllByFilter"}

\* handles[h].Unscoped()
UnscopedOf(h) == UnscopedHandles(handles, h)[Len(handles) + 1]

----------------------------------------------------------------------------
(* C1: soft delete hides the entity from the scoped handle only.           *)

\* C1: for every entity type with a DeletedAt attribute, whatever its storage
\* name: when an entity e stored by a successful Create(e) is deleted by
\* DeleteByID(e.ID) on a scoped handle, then afterwards FindByID(e.ID) on that
\* handle fails with NotFound and Unscoped().FindByID(e.ID) succeeds with a
\* deletion timestamp greater than zero.
C1_SoftDeleteHides ==
    [][(/\ last'.op = "DeleteByID"
        /\ last'.err = "nil"
        /\ Scoped(handles[last'.h])
        /\ \E d \in documents, e \in NewEntities(ENTITY) :
              CreatedFrom(ENTITY, d, e) /\ e["ID"] = last'.id /\ e["DeletedAt"] = 0)
       => /\ \A o \in FindByID(handles[last'.h], ENTITY, documents', last'.id, FALSE) :
                o.err = "NotFound"
          /\ \A o \in FindByID(UnscopedOf(last'.h), ENTITY, documents', last'.id, FALSE) :
                o.err = "nil" /\ o.ret["DeletedAt"] > 0]_vars

----------------------------------------------------------------------------
(* C2: what the delete operations do to the collection.                    *)

\* between docs and docs2 no document was removed or added, and the only
\* field written is the soft-delete field, set to the time t
OnlyStamped(c, docs, docs2, t) ==
    /\ Keys(docs2) = Keys(docs)
    /\ \A d \in docs :
          LET x == Same(docs2, d)
          IN  /\ DOMAIN x \ {SoftDeleteField(c)} = DOMAIN d \ {SoftDeleteField(c)}
              /\ \A k \in DOMAIN d \ {SoftDeleteField(c)} : x[k] = d[k]
              /\ \/ x = d
                 \/ SoftDeleteField(c) \in DOMAIN x /\ x[SoftDeleteField(c)] = t

\* the soft branch of C2, for the step of a delete operation
C2_SoftBranch ==
    Scoped(handles[last'.h]) =>
        OnlyStamped(handles[last'.h], documents, documents', now)

\* the documents the caller's predicates of the delete select
C2_Selected == {d \in documents : Selects(last', handles[last'.h], d)}

----------------------------------------------------------------------------
(* C3: what the read operations see.                                       *)

ReadOps ==
    {"FindOne", "FindByID", "FindByIDs", "FindByPage", "FindByFilter",
     "FindByFilterWithPage", "FindAll", "Count", "CountByFilter", "Exists",
     "ExistsByID", "ExistsByIDs"}

\* the documents the last call has to see: selected by the caller's predicates
\* and visible under the scope of the handle
Expected == {d \in documents : Selects(last, Caller, d) /\ Visible(Caller, d)}

\* the number of documents a page of the expected documents holds
PageSize(n, limit, offset) ==
    LET rest == IF n > offset THEN n - offset ELSE 0
    IN  IF limit = 0 \/ rest < limit THEN rest ELSE limit

\* C3: a read operation the store did not fail sees a stored document if and
\* only if the document matches the caller's predicates and, on a scoped handle
\* of a soft-delete-enabled repository, its soft-delete field (under the name
\* SoftDeleteField()) is 0 or absent.
C3_ReadsSeeVisible ==
    (last.op \in ReadOps /\ ~last.fail) =>
        CASE last.op \in {"FindOne", "FindByID"} ->
               /\ (last.err = "nil") = (Expected # {})
               /\ SeqKeys(last.seen) \subseteq Keys(Expected)
          [] last.op \in {"FindByIDs", "FindByFilter", "FindAll", "ExistsByIDs"} ->
               /\ last.err = "nil"
               /\ SeqKeys(last.seen) = Keys(Expected)
          [] last.op \in {"FindByPage", "FindByFilterWithPage"} ->
               /\ last.err = "nil"
               /\ SeqKeys(last.seen) \subseteq Keys(Expected)
               /\ Len(last.seen) = PageSize(Cardinality(Expected), last.limit, last.offset)
          [] last.op \in {"Count", "CountByFilter"} ->
               last.err = "nil" /\ last.ret = Cardinality(Expected)
          [] last.op \in {"Exists", "ExistsByID"} ->
               last.err = "nil" /\ last.ret = (Expected # {})

----------------------------------------------------------------------------
(* C4: Unscoped() clones.                                                  *)

\* C4: the constructed handle stays scoped whatever is called, and every
\* handle Unscoped() returned is unscoped and has the collection, IDField(),
\* SoftDeleteField() and SoftDeleteEnabled() of the constructed handle.
C4_UnscopedKeepsReceiver ==
    /\ ~IsUnscoped(handles[1])
    /\ \A i \in 2..Len(handles) :
          /\ IsUnscoped(handles[i])
          /\ handles[i].collection = handles[1].collection
          /\ IDField(handles[i]) = IDField(handles[1])
          /\ SoftDeleteField(handles[i]) = SoftDeleteField(handles[1])
          /\ SoftDeleteEnabled(handles[i]) = SoftDeleteEnabled(handles[1])

\* an operation has been invoked on a handle returned by Unscoped()
C4_Witness ==
    /\ Len(handles) >= 2
    /\ last.op = "DeleteAll"
    /\ last.h = 2
    /\ last.err = "nil"

----------------------------------------------------------------------------
(* C5, C6, C7: Create.                                                     *)

\* the identifier of the entity the document decodes to
Identifier(T, d) == GetID(Unmarshal(T, d))

\* the entity carries no deletion mark
Unmarked(e) == "DeletedAt" \in DOMAIN e => e["DeletedAt"] = 0

\* the document is what an insert of the entity e leaves in the store: the
\* encoding of e, with the key the store added when e has none
StoredFrom(T, d, e) ==
    /\ DOMAIN d = DOMAIN Marshal(T, e) \cup {"_id"}
    /\ \A k \in DOMAIN Marshal(T, e) : d[k] = Marshal(T, e)[k]

\* C5: round trip.  When the store does not fail, Create(e) of an entity e
\* whose identifier no stored entity has (e carrying no deletion mark),
\* followed by FindByID(e.ID) on the same handle, succeeds and returns an
\* entity equal to e on all fields.
C5_RoundTrip ==
    [][(/\ last'.op = "Create"
        /\ ~last'.fail
        /\ Unmarked(last'.entity)
        /\ \A d \in documents : Identifier(ENTITY, d) # GetID(last'.entity))
       => \A o \in FindByID(handles[last'.h], ENTITY, documents',
                            GetID(last'.entity), FALSE) :
             o.err = "nil" /\ o.ret = last'.entity]_vars

\* C6: duplicate insert.  When the store holds the document of a created
\* entity, Create of an entity with the same identifier returns DuplicatedKey,
\* and the store still holds that document, unchanged, as its only document
\* with that identifier.
C6_DuplicateInsert ==
    [][(/\ last'.op = "Create"
        /\ ~last'.fail
        /\ \E d \in documents, e \in NewEntities(ENTITY) :
              StoredFrom(ENTITY, d, e) /\ GetID(e) = GetID(last'.entity))
       => /\ last'.err = "DuplicatedKey"
          /\ documents' = documents
          /\ Cardinality({d \in documents' :
                             Identifier(ENTITY, d) = GetID(last'.entity)}) = 1]_vars

\* C7: whenever the store accepts the insert, Create returns a nil error and
\* the identifier the store reports for the inserted document, and the passed
\* entity's GetID() equals the returned identifier afterwards.
C7_CreateReturnsID ==
    [][(last'.op = "Create" /\ documents' # documents)
       => /\ last'.err = "nil"
          /\ \A d \in documents' \ documents : last'.ret = d["_id"]
          /\ GetID(last'.after) = last'.ret]_vars

----------------------------------------------------------------------------
(* C8: FindOne and FindByID.                                               *)

\* the results a set of outcomes holds
Results(S) == {<<o.err, o.ret>> : o \in S}

\* C8: FindOne and FindByID fail with NotFound exactly when no document visible
\* under the handle's scope matches; otherwise they return a nil error and the
\* entity of one such document; and FindByID(id) returns what
\* FindOne({idField: id}) returns.
C8_FindOneOrNotFound ==
    /\ (last.op \in {"FindOne", "FindByID"} /\ ~last.fail) =>
          IF Expected = {} THEN last.err = "NotFound"
          ELSE /\ last.err = "nil"
               /\ \E d \in Expected : last.seen = <<d>> /\ last.ret = Unmarshal(ENTITY, d)
    /\ last.op = "FindByID" =>
          Results(FindByID(Caller, ENTITY, documents, last.id, last.fail))
              = Results(FindOne(Caller, ENTITY, documents,
                                IDField(Caller) :> Eq(last.id), << >>, last.fail))

----------------------------------------------------------------------------
(* C9: Count after a soft DeleteAll.                                       *)

\* DeleteAll() has succeeded on the scoped handle of a soft-delete-enabled
\* repository that holds two entities
C9_AfterSoftDeleteAll ==
    /\ last.op = "DeleteAll"
    /\ last.err = "nil"
    /\ Scoped(Caller)
    /\ Cardinality(documents) = 2

\* C9 as stated: after DeleteAll() on the scoped handle of a soft-delete-enabled
\* repository with two entities, Count() on that handle returns 2.
C9_CountsSoftDeleted ==
    C9_AfterSoftDeleteAll =>
        \A o \in Count(Caller, documents, FALSE) : o.err = "nil" /\ o.ret = 2

\* C9 amended: after that DeleteAll(), Count() on the handle returns the number
\* of entities FindAll() on the handle returns, which is 0 when the soft-delete
\* field is stored as deleted_at, and Unscoped().Count() returns 2.
C9_CountIsScoped ==
    C9_AfterSoftDeleteAll =>
        /\ \A o \in Count(Caller, documents, FALSE) :
              /\ o.err = "nil"
              /\ \A f \in FindAll(Caller, ENTITY, documents, FALSE) : o.ret = Len(f.ret)
              /\ SoftDeleteField(Caller) = "deleted_at" => o.ret = 0
        /\ \A o \in Count(UnscopedOf(last.h), documents, FALSE) :
              o.err = "nil" /\ o.ret = 2

\* the two entities of a repository that stores the field as deleted_at have
\* been soft-deleted by DeleteAll()
C9_Witness ==
    /\ C9_AfterSoftDeleteAll
    /\ SoftDeleteField(Caller) = "deleted_at"
    /\ \A d \in documents : "deleted_at" \in DOMAIN d /\ d["deleted_at"] = last.t

----------------------------------------------------------------------------
(* C10: UpdateNonZero and UpdateNonZeroByID.                               *)

C10_Ops == {"UpdateNonZero", "UpdateNonZeroByID"}

\* the attributes of the entity passed to the call that are not zero
C10_NonZero == {i \in 1..Len(Shape(ENTITY)) : last'.entity[Shape(ENTITY)[i].Name] # 0}

\* the document d with exactly those attributes set to the entity's values,
\* each under the name of its annotation
C10_Updated(d) ==
    [k \in DOMAIN d \cup {NonZeroKey(ENTITY, i) : i \in C10_NonZero} |->
        IF \E i \in C10_NonZero : NonZeroKey(ENTITY, i) = k
        THEN last'.entity[Shape(ENTITY)[CHOOSE i \in C10_NonZero :
                                            NonZeroKey(ENTITY, i) = k].Name]
        ELSE d[k]]

\* the visible documents the call matches
C10_Matching ==
    {d \in documents : Selects(last', handles[last'.h], d) /\ Visible(handles[last'.h], d)}

\* no document is added or removed, a field whose attribute is zero in the
\* entity is unchanged in every document, and a document that does not match
\* is unchanged
C10_Frame ==
    /\ Keys(documents') = Keys(documents)
    /\ \A d \in documents :
          LET x == Same(documents', d)
          IN  /\ x = d \/ x = C10_Updated(d)
              /\ ~Selects(last', handles[last'.h], d) => x = d

----------------------------------------------------------------------------
(* C11: Update and UpdateByID.                                             *)

C11_Ops == {"Update", "UpdateByID"}

\* the document d with exactly the fields named in the data of the call set
C11_Updated(d) == last'.data @@ d

\* C11: Update and UpdateByID add and remove no document; a document is left
\* as it was or has exactly the fields named in data set to the given values;
\* a document that does not match, and on a scoped soft-delete-enabled handle
\* a soft-deleted document, is left unchanged; when the call returns a nil
\* error, Update has set the fields in every visible matching document and
\* UpdateByID has changed at most one document.
C11_UpdateSetsVisible ==
    [][last'.op \in C11_Ops
       => /\ Keys(documents') = Keys(documents)
          /\ \A d \in documents :
                LET x == Same(documents', d)
                IN  /\ x = d \/ x = C11_Updated(d)
                    /\ ~Selects(last', handles[last'.h], d) => x = d
                    /\ ~Visible(handles[last'.h], d) => x = d
          /\ last'.err = "nil"
                => IF last'.op = "Update"
                   THEN \A d \in documents :
                           (Selects(last', handles[last'.h], d)
                               /\ Visible(handles[last'.h], d))
                              => Same(documents', d) = C11_Updated(d)
                   ELSE Cardinality(documents' \ documents) <= 1]_vars

----------------------------------------------------------------------------
(* C12: requests per call.                                                 *)

\* the operations of the repository that work on the store
StoreOps ==
    ReadOps \cup DeleteOps \cup C10_Ops \cup C11_Ops \cup {"Create"}

\* the call is one of those the claim excepts: an empty identifier list, or
\* an entity all of whose fields are zero
C12_Excepted(call) ==
    \/ call.op \in {"FindByIDs", "ExistsByIDs", "DeleteByIDs"} /\ Len(call.ids) = 0
    \/ call.op \in C10_Ops /\ \A f \in DOMAIN call.entity : call.entity[f] = 0

----------------------------------------------------------------------------
(* C13: Exists and ExistsByID.                                             *)

\* C13: Exists and ExistsByID return (true, nil) when the store does not fail
\* and a document visible under the handle's scope matches, (false, nil) when
\* the store reports no matching document, and an error only when the store
\* fails otherwise; and Exists(filter) is true exactly when
\* CountByFilter(filter) on the same handle and documents is positive.
C13_ExistsProbe ==
    last.op \in {"Exists", "ExistsByID"} =>
        /\ (~last.fail /\ Expected # {}) => (last.ret = TRUE /\ last.err = "nil")
        /\ (~last.fail /\ last.seen = << >>) => (last.ret = FALSE /\ last.err = "nil")
        /\ last.err # "nil" => (last.fail /\ last.err = "IOFailure")
        /\ (last.op = "Exists" /\ last.err = "nil") =>
              \A o \in CountByFilter(Caller, documents, last.filter, FALSE) :
                  (last.ret = TRUE) <=> (o.ret > 0)

\* Exists has answered false on a scoped handle while a soft-deleted document
\* matches the filter
C13_Witness ==
    /\ last.op = "Exists"
    /\ last.ret = FALSE
    /\ last.err = "nil"
    /\ ~last.fail
    /\ Scoped(Caller)
    /\ \E d \in documents : Selects(last, Caller, d) /\ ~Visible(Caller, d)

----------------------------------------------------------------------------
(* C14: FindByIDs and ExistsByIDs.                                         *)

\* C14: for a non-empty identifier list, when the store does not fail,
\* FindByIDs returns without error a Collection holding exactly the documents
\* visible under the handle's scope whose identifier is in the list, each
\* once, and ExistsByIDs returns a Dict whose keys are exactly the identifiers
\* of those documents, each mapped to true.
C14_ByIDsSeeVisible ==
    (last.op \in {"FindByIDs", "ExistsByIDs"} /\ Len(last.ids) > 0 /\ ~last.fail) =>
        /\ last.err = "nil"
        /\ SeqKeys(last.seen) = Keys(Expected)
        /\ Len(last.seen) = Cardinality(Expected)
        /\ IF last.op = "FindByIDs"
           THEN last.ret = [i \in 1..Len(last.seen) |-> Unmarshal(ENTITY, last.seen[i])]
           ELSE /\ DOMAIN last.ret = {d[IDField(Caller)] : d \in Expected}
                /\ \A k \in DOMAIN last.ret : last.ret[k] = TRUE

----------------------------------------------------------------------------
(* C15: pagination.                                                        *)

\* the positions offset+1 .. offset+limit of the sequence s, as far as it goes
C15_Positions(s, limit, offset) ==
    SubSeq(s, offset + 1, IF offset + limit < Len(s) THEN offset + limit ELSE Len(s))

\* C15: when the store does not fail, FindByPage and FindByFilterWithPage with
\* a limit greater than 0 return without error exactly the documents at
\* positions offset .. offset+limit-1 of the visible matching documents sorted
\* by the orders (a negative direction descending, a non-negative one
\* ascending; any sequence of them when no order is given), so limit = 1 and
\* an offset below their number gives exactly one document.
C15_PageOfVisible ==
    (last.op \in {"FindByPage", "FindByFilterWithPage"} /\ ~last.fail /\ last.limit > 0) =>
        /\ last.err = "nil"
        /\ \E s \in Cursors(Expected, last.orders) :
              last.seen = C15_Positions(s, last.limit, last.offset)
        /\ last.ret = [i \in 1..Len(last.seen) |-> Unmarshal(ENTITY, last.seen[i])]
        /\ (last.limit = 1 /\ last.offset < Cardinality(Expected)) => Len(last.ret) = 1

----------------------------------------------------------------------------
(* C16, C17: what NewCrudRepository resolves.                              *)

\* the annotation gives a name
HasName(tag) == tag # << >> /\ Head(tag) # ""

\* the storage name of an attribute: the name in its bson annotation, else the
\* name in its json annotation, else the default
StorageName(f, default) ==
    IF HasName(f.bson) THEN Head(f.bson)
    ELSE IF HasName(f.json) THEN Head(f.json)
    ELSE default

\* C16: a repository built for an entity type that declares DeletedAt, with
\* any annotation, reports SoftDeleteEnabled() true and SoftDeleteField() the
\* attribute's storage name (bson name, else json name, else "deleted_at");
\* built for a type without the attribute it reports false and "".
C16_SoftDeleteResolved ==
    (last.op = "NewCrudRepository" /\ handles # << >>) =>
        LET i == FieldByName(ENTITY, "DeletedAt")
        IN  IF i # 0
            THEN /\ SoftDeleteEnabled(handles[1])
                 /\ SoftDeleteField(handles[1]) = StorageName(Shape(ENTITY)[i], "deleted_at")
            ELSE /\ ~SoftDeleteEnabled(handles[1])
                 /\ SoftDeleteField(handles[1]) = ""

\* C17: construction for a type that is not a struct, or that has neither an
\* attribute ID nor Id, fails fatally and returns no handle; otherwise
\* IDField() is the storage name of the attribute ID, or else Id (bson name,
\* else json name, else "_id").
C17_IDFieldResolved ==
    last.op = "NewCrudRepository" =>
        LET i == IF FieldByName(ENTITY, "ID") # 0 THEN FieldByName(ENTITY, "ID")
                 ELSE FieldByName(ENTITY, "Id")
        IN  IF Kind(ENTITY) # "struct" \/ i = 0
            THEN last.err = Panic /\ handles = << >>
            ELSE /\ last.err = "nil"
                 /\ Len(handles) = 1
                 /\ IDField(handles[1]) = StorageName(Shape(ENTITY)[i], "_id")

----------------------------------------------------------------------------
(* C18: failures of the store.                                             *)

\* the error the store gave the last call, when it is neither 'no matching
\* document' nor a uniqueness violation on insert: the failure of the
\* request, or the write error of an update the store rejects
C18_StoreErrors ==
    IF last.op \in StoreOps /\ last.requests = 1 /\ last.fail THEN {StoreError}
    ELSE IF last.op \in C10_Ops \cup C11_Ops \cup DeleteOps /\ last.err # "nil"
    THEN {"WriteError"}
    ELSE {}

----------------------------------------------------------------------------
(* C19: the physical-delete branch uses the caller's raw filter.           *)

\* C19: Delete(filter) and DeleteAllByFilter(filter) on an unscoped handle of
\* a soft-delete-enabled repository physically remove every stored document
\* matching the caller's filter, soft-deleted or live, and no other document.
C19_RawFilterRemoves ==
    [][(/\ last'.op \in {"Delete", "DeleteAllByFilter"}
        /\ SoftDeleteEnabled(handles[last'.h])
        /\ IsUnscoped(handles[last'.h])
        /\ last'.err = "nil")
       => documents' = {d \in documents : ~Selects(last', handles[last'.h], d)}]_vars

\* an unscoped Delete by name on a soft-delete-enabled repository has left a
\* live document, which the filter does not match
C19_Witness ==
    /\ last.op = "Delete"
    /\ SoftDeleteEnabled(Caller)
    /\ IsUnscoped(Caller)
    /\ last.err = "nil"
    /\ DOMAIN last.filter = {"name"}
    /\ \E d \in documents : Live(Caller, d) /\ ~Selects(last, Caller, d)

----------------------------------------------------------------------------
(* C20: a failed Create.                                                   *)

\* C20: whenever Create returns a non-nil error, the store holds exactly the
\* documents it held before the call, the 'unexpected type' error included.
C20_FailedCreateInsertsNothing ==
    [][(last'.op = "Create" /\ last'.err # "nil") => documents' = documents]_vars

----------------------------------------------------------------------------
(* C21: soft delete of a document that is already soft-deleted.            *)

\* C21: a delete operation on a scoped handle of a soft-delete-enabled
\* repository leaves the deletion timestamp of every document that is
\* already soft-deleted unchanged, whatever its filter matches.
C21_SoftDeleteIdempotent ==
    [][(last'.op \in DeleteOps /\ Scoped(handles[last'.h]))
       => \A d \in documents :
             ~Live(handles[last'.h], d)
                => \E x \in documents' :
                      /\ x["_id"] = d["_id"]
                      /\ SoftDeleteField(handles[last'.h]) \in DOMAIN x
                      /\ x[SoftDeleteField(handles[last'.h])]
                            = d[SoftDeleteField(handles[last'.h])]]_vars

----------------------------------------------------------------------------
(* C22: a soft-deleted document under the scoped operations.               *)

C22_Ops ==
    {"Create", "Update", "UpdateByID", "UpdateNonZero", "UpdateNonZeroByID"}
        \cup DeleteOps

\* C22: no write operation issued through a scoped handle changes, restores
\* or removes a document that is soft-deleted: every soft-deleted document is
\* stored unchanged after the call.
C22_SoftDeletedStays ==
    [][(last'.op \in C22_Ops /\ Scoped(handles[last'.h]))
       => \A d \in documents : ~Live(handles[last'.h], d) => d \in documents']_vars

----------------------------------------------------------------------------
(* C23: the identifier of a soft-deleted document.                         *)

\* C23: after a scoped soft DeleteByID(id) of a stored document, ExistsByID(id)
\* on that handle returns false, and Create of an entity with the identifier
\* id fails with DuplicatedKey and leaves the collection as it is.
C23_SoftDeletedIDNotReusable ==
    (/\ last.op = "DeleteByID"
     /\ last.err = "nil"
     /\ Scoped(Caller)
     /\ \E d \in documents : Selects(last, Caller, d))
    => /\ \A o \in ExistsByID(Caller, documents, last.id, FALSE) :
             o.err = "nil" /\ o.ret = FALSE
       /\ \A e \in NewEntities(ENTITY) :
             GetID(e) = last.id
                => LET o == Create(Caller, ENTITY, documents, e, FALSE)
                   IN  o.err = "DuplicatedKey" /\ o.docs = documents

----------------------------------------------------------------------------
(* C24: the identifier under the non-zero updates.                         *)

\* the value the document carries under the handle's identifier field,
\* << >> when it carries none
IDValue(c, d) == IF IDField(c) \in DOMAIN d THEN <<d[IDField(c)]>> ELSE << >>

\* C24: UpdateNonZero and UpdateNonZeroByID leave the identifier-field value
\* of every stored document as it was, whatever identifier the passed entity
\* carries and whatever the storage name of the identifier.
C24_NonZeroKeepsID ==
    [][last'.op \in {"UpdateNonZero", "UpdateNonZeroByID"}
       => \A d \in documents :
             \E x \in documents' :
                /\ x["_id"] = d["_id"]
                /\ IDValue(handles[last'.h], x) = IDValue(handles[last'.h], d)]_vars

----------------------------------------------------------------------------
(* C25: how many documents DeleteByID changes.                             *)

\* C25: DeleteByID(id) removes or stamps at most one stored document, on a
\* scoped and on an unscoped handle, also when several stored documents carry
\* the identifier id.
C25_DeleteByIDChangesOne ==
    [][last'.op = "DeleteByID" => Cardinality(documents \ documents') <= 1]_vars

----------------------------------------------------------------------------
(* C26: a soft DeleteByID racing with an update by identifier.             *)

\* both calls of the race have returned, the DeleteByID without error, and
\* both were for the identifier of the stored document
C26_RaceOver ==
    /\ DOMAIN calls = {"deleter", "updater"}
    /\ \A p \in DOMAIN calls : calls[p].returned /\ calls[p].call.id = 1
    /\ calls["deleter"].call.err = "nil"

\* C26: when a scoped soft DeleteByID(id) and a scoped UpdateByID(id, data) or
\* UpdateNonZeroByID(id, entity) of the same document have both been served,
\* in either order, the document is soft-deleted with a non-zero deletion
\* timestamp.
C26_EndsSoftDeleted ==
    C26_RaceOver => \A d \in documents : ~Live(handles[1], d)

====
